---------------------------- MODULE Spec2Model ----------------------------
(***************************************************************************)
(* A model of the session orchestrator of lib/src/session.c: the session   *)
(* thread (session_thread_func and session_thread_request_session), the    *)
(* public calls chiaki_session_stop / set_login_pin / set_controller_state *)
(* / join / fini, the embedder's event callback and the control channel's  *)
(* flag updates.                                                           *)
(***************************************************************************)
EXTENDS Integers, Sequences, FiniteSets, TLC

(***************************************************************************)
(* Bounds of the model.                                                    *)
(***************************************************************************)
\* number of resolved address candidates in connect_info.host_addrinfos
MaxAddrs == 2
\* number of PIN buffers chiaki_session_set_login_pin allocates in a run
MaxPins == 2
\* number of times the control channel raises ctrl_login_pin_requested
MaxPinReq == 2

(***************************************************************************)
(* Data model: targets, quit reasons, error codes.                         *)
(***************************************************************************)
NULL == "NULL"

Targets == {"PS4_UNKNOWN", "PS4_8", "PS4_9", "PS4_10", "PS5_UNKNOWN", "PS5_1"}

chiaki_target_is_unknown(t) == t \in {"PS4_UNKNOWN", "PS5_UNKNOWN"}

chiaki_target_is_ps5(t) == t \in {"PS5_UNKNOWN", "PS5_1"}

\* the RP-Version strings a server may report ("x" stands for any other text)
VersionStrings == {"1.0", "5.0", "8.0", "9.0", "10.0", "x"}

chiaki_rp_version_string(version) ==
    CASE version = "PS4_8" -> "8.0"
      [] version = "PS4_9" -> "9.0"
      [] version = "PS4_10" -> "10.0"
      [] version = "PS5_1" -> "1.0"
      [] OTHER -> NULL

chiaki_rp_version_parse(rp_version_str, is_ps5) ==
    IF is_ps5
    THEN IF rp_version_str = "1.0" THEN "PS5_1" ELSE "PS5_UNKNOWN"
    ELSE CASE rp_version_str = "8.0" -> "PS4_8"
           [] rp_version_str = "9.0" -> "PS4_9"
           [] rp_version_str = "10.0" -> "PS4_10"
           [] OTHER -> "PS4_UNKNOWN"

\* fault injection: init leaves the family's unknown target
InitTargetUnknown(is_ps5) == IF is_ps5 THEN "PS5_UNKNOWN" ELSE "PS4_UNKNOWN"

\* session.target as set by chiaki_session_init
InitTarget(is_ps5) == IF is_ps5 THEN "PS5_1" ELSE "PS4_10"

\* fault injection: the legacy path of PS4_8 and PS4_9 is not selected
RequestPathNoLegacy(t) ==
    IF chiaki_target_is_ps5(t) THEN "/sie/ps5/rp/sess/init"
    ELSE "/sie/ps4/rp/sess/init"

\* the request path selected by the target
RequestPath(t) ==
    IF t = "PS4_8" \/ t = "PS4_9" THEN "/sce/rp/session"
    ELSE IF chiaki_target_is_ps5(t) THEN "/sie/ps5/rp/sess/init"
    ELSE "/sie/ps4/rp/sess/init"

\* values of RP-Application-Reason ("NONE": header absent, error_code 0)
AppReasons == {"NONE", "IN_USE", "CRASH", "RP_VERSION", "UNKNOWN", "OTHER"}

\* a parsed HTTP response: status code 200 or not, RP-Nonce absent / decoding
\* to 16 bytes / not decoding to 16 bytes, RP-Version or NULL, the reason.
\* RP-Version and the reason are not read when RP-Nonce came with code 200,
\* and RP-Nonce is not read otherwise, so one response stands for each of
\* those classes.
Responses ==
    [code200 : {TRUE}, nonce : {"nonce16", "bad"}, rp_version : {NULL},
     error_code : {"NONE"}]
    \cup [code200 : {FALSE}, nonce : {"nonce16"}, rp_version : {NULL, "9.0"},
          error_code : {"NONE", "RP_VERSION"}]
    \cup [code200 : BOOLEAN, nonce : {NULL},
          rp_version : VersionStrings \cup {NULL}, error_code : AppReasons]

\* SessionResponse.success as computed by parse_session_response
parse_session_response(http) ==
    IF http.code200 THEN http.nonce # NULL ELSE FALSE

\* fault injection: the decoded length of the nonce is not tested
NonceDecodesAnyLength(n) == TRUE

\* chiaki_base64_decode succeeded and gave CHIAKI_RPCRYPT_KEY_SIZE bytes
NonceDecodes(n) == n = "nonce16"

\* fault injection: the cases IN_USE and CRASH are exchanged
TerminalReasonSwapped(error_code) ==
    CASE error_code = "IN_USE" -> "SESSION_REQUEST_RP_CRASH"
      [] error_code = "CRASH" -> "SESSION_REQUEST_RP_IN_USE"
      [] error_code = "RP_VERSION" -> "SESSION_REQUEST_RP_VERSION_MISMATCH"
      [] OTHER -> "SESSION_REQUEST_UNKNOWN"

\* the quit reason the switch on RP-Application-Reason sets
TerminalReason(error_code) ==
    CASE error_code = "IN_USE" -> "SESSION_REQUEST_RP_IN_USE"
      [] error_code = "CRASH" -> "SESSION_REQUEST_RP_CRASH"
      [] error_code = "RP_VERSION" -> "SESSION_REQUEST_RP_VERSION_MISMATCH"
      [] OTHER -> "SESSION_REQUEST_UNKNOWN"

\* the error the switch on RP-Application-Reason leaves in r
TerminalError(error_code) ==
    IF error_code = "RP_VERSION" THEN "VERSION_MISMATCH" ELSE "UNKNOWN"

\* The outcome classification at the end of session_thread_request_session:
\* the returned error, the value left in *target_out (st: the caller's
\* server_target, has_out: target_out # NULL), the new quit_reason and
\* whether session.nonce was written with 16 decoded bytes; wrote tells
\* whether *target_out was assigned.
ClassifyResponse(http, target, is_ps5, has_out, st, qr) ==
    LET rp_version_str == chiaki_rp_version_string(target)
        parsed == chiaki_rp_version_parse(http.rp_version, is_ps5)
    IN  IF parse_session_response(http)
        THEN IF NonceDecodes(http.nonce)
             THEN [r |-> "SUCCESS", st |-> st, qr |-> qr, nonce |-> TRUE,
                   wrote |-> FALSE]
             ELSE [r |-> "UNKNOWN", st |-> st,
                   qr |-> "SESSION_REQUEST_UNKNOWN", nonce |-> FALSE,
                   wrote |-> FALSE]
        ELSE IF /\ http.error_code \in {"RP_VERSION", "UNKNOWN"}
                /\ has_out
                /\ http.rp_version # NULL
                /\ rp_version_str # http.rp_version
        THEN IF ~chiaki_target_is_unknown(parsed)
             THEN [r |-> "VERSION_MISMATCH", st |-> parsed, qr |-> qr,
                   nonce |-> FALSE, wrote |-> TRUE]
             ELSE IF http.rp_version = "5.0"
             THEN [r |-> "VERSION_MISMATCH", st |-> "PS4_9", qr |-> qr,
                   nonce |-> FALSE, wrote |-> TRUE]
             ELSE [r |-> "VERSION_MISMATCH", st |-> parsed,
                   qr |-> "SESSION_REQUEST_RP_VERSION_MISMATCH",
                   nonce |-> FALSE, wrote |-> TRUE]
        ELSE [r |-> TerminalError(http.error_code), st |-> st,
              qr |-> TerminalReason(http.error_code), nonce |-> FALSE,
              wrote |-> FALSE]

(***************************************************************************)
(* State.                                                                  *)
(***************************************************************************)
VARIABLES
    \* ChiakiSession fields
    ps5,                        \* connect_info.ps5
    event_cb,                   \* TRUE iff an event callback is registered
    target,
    quit_reason,
    quit_reason_str,
    should_stop,
    stop_pipe,                  \* TRUE once chiaki_stop_pipe_stop was called
    ctrl_failed,
    ctrl_session_id_received,
    ctrl_login_pin_requested,
    login_pin_entered,
    login_pin,                  \* 0 (null) or the index of a heap buffer
    login_pin_size,
    nonce_set,                  \* session.nonce holds 16 decoded bytes
    selected,                   \* connect_info.host_addrinfo_selected (0: none)
    mutex,                      \* owner of state_mutex: "none" or a thread
    \* the collaborators the session drives
    ctrl,                       \* "idle", "running" (started), "joined"
                                \* (stopped and joined); "misuse" after a
                                \* start, stop or join out of this order
    ecdh,                       \* "none", "init", "fini"; "misuse" likewise
    \* the session thread: position and locals
    pc,
    attempt,                    \* which call of session_thread_request_session
    ai,                         \* index of the address candidate
    session_sock,               \* "invalid" or "open"
    err,
    server_target,
    pin_incorrect,
    \* callers of the public API: the embedder's thread and the callback
    cpc,
    cbuf,
    csize,
    life,                       \* "new", "init_failed", "init", "started",
                                \* "joined", "finished"
    \* the heap of PIN buffers: heap[i] is "live" or "freed"
    heap,
    heap_err,                   \* TRUE once free() was given a dead buffer
    \* history of what the session did
    events,                     \* events given to chiaki_session_send_event
    handed,                     \* number of chiaki_ctrl_set_login_pin calls
    produced,                   \* this attempt wrote a known *target_out
    open_socks,                 \* sockets opened and not closed
    canceled,                   \* some phase ended with CANCELED
    stopInReq,                  \* stop() took effect during connect / recv
    npinreq,                    \* times ctrl raised ctrl_login_pin_requested
    \* history of the current call of session_thread_request_session
    entry_qr,                   \* quit_reason when the call was entered
    conn_log,                   \* <<candidate, connect result>> of each connect
    sent,                       \* <<>> or <<the request that was sent>>
    resp,                       \* <<>> or <<the response that was parsed>>
    \* what chiaki_session_init did
    init_acq,                   \* the resources it acquired, in order
    init_rel                    \* the resources it released, in order

constVars == <<ps5, event_cb, init_acq, init_rel>>

flagVars == <<should_stop, stop_pipe, ctrl_failed, ctrl_session_id_received>>

pinVars == <<login_pin_entered, login_pin, login_pin_size, heap, heap_err>>

callVars == <<entry_qr, conn_log, sent, resp>>

reqVars == <<attempt, ai, session_sock, err, server_target, target, nonce_set,
             selected, produced, open_socks, callVars>>

apiVars == <<cpc, cbuf, csize>>

vars == <<ps5, event_cb, target, quit_reason, quit_reason_str, should_stop,
          stop_pipe, ctrl_failed, ctrl_session_id_received,
          ctrl_login_pin_requested, login_pin_entered, login_pin,
          login_pin_size, nonce_set, selected, mutex, ctrl,
          ecdh, pc, attempt, ai, session_sock, err, server_target,
          pin_incorrect, cpc, cbuf, csize, life, heap, heap_err,
          events, handed, produced, open_socks, canceled,
          stopInReq, npinreq, init_acq, init_rel, entry_qr, conn_log, sent,
          resp>>

Callers == {"emb", "cb"}

\* the thread a caller runs on: the callback runs on the session thread
ThreadOf(c) == IF c = "cb" THEN "session" ELSE "embedder"

\* the session object as chiaki_session_init finds it after its memset
Init ==
    /\ ps5 \in BOOLEAN
    /\ event_cb \in BOOLEAN
    /\ target = "PS4_UNKNOWN"
    /\ quit_reason = "NONE"
    /\ quit_reason_str = NULL
    /\ should_stop = FALSE
    /\ stop_pipe = FALSE
    /\ ctrl_failed = FALSE
    /\ ctrl_session_id_received = FALSE
    /\ ctrl_login_pin_requested = FALSE
    /\ login_pin_entered = FALSE
    /\ login_pin = 0
    /\ login_pin_size = 0
    /\ nonce_set = FALSE
    /\ selected = 0
    /\ mutex = "none"
    /\ ctrl = "idle"
    /\ ecdh = "none"
    /\ pc = "not_started"
    /\ attempt = 0
    /\ ai = 0
    /\ session_sock = "invalid"
    /\ err = "SUCCESS"
    /\ server_target = "PS4_UNKNOWN"
    /\ pin_incorrect = FALSE
    /\ cpc = [c \in Callers |-> "idle"]
    /\ cbuf = [c \in Callers |-> 0]
    /\ csize = [c \in Callers |-> 0]
    /\ life = "new"
    /\ heap = <<>>
    /\ heap_err = FALSE
    /\ events = <<>>
    /\ handed = 0
    /\ produced = FALSE
    /\ open_socks = 0
    /\ canceled = FALSE
    /\ stopInReq = FALSE
    /\ npinreq = 0
    /\ init_acq = <<>>
    /\ init_rel = <<>>
    /\ entry_qr = "NONE"
    /\ conn_log = <<>>
    /\ sent = <<>>
    /\ resp = <<>>

(***************************************************************************)
(* chiaki_session_init: the resources are acquired in the order of         *)
(* InitResources; a failure jumps to an error label (or calls              *)
(* chiaki_session_fini) and the labels fall through to the end.            *)
(***************************************************************************)
InitResources ==
    <<"state_cond", "state_mutex", "stop_pipe", "ctrl", "stream_connection",
      "host_addrinfos">>

\* what is released from an error label of chiaki_session_init on
RECURSIVE InitUnwind(_)
InitUnwind(label) ==
    CASE label = "error_stop_pipe" ->
             <<"stop_pipe">> \o InitUnwind("error_ctrl")
      [] label = "error_ctrl" ->
             <<"ctrl">> \o InitUnwind("error_state_mutex")
      [] label = "error_state_mutex" ->
             <<"state_mutex">> \o InitUnwind("error_state_cond")
      [] label = "error_state_cond" ->
             <<"state_cond">> \o InitUnwind("error")
      [] OTHER -> <<>>

\* what chiaki_session_fini releases, in its order (login_pin and
\* quit_reason_str are still null when init calls it)
FiniReleases ==
    <<"stream_connection", "ctrl", "stop_pipe", "state_cond", "state_mutex",
      "host_addrinfos">>

\* the error label taken when acquiring InitResources[k] fails
InitErrorLabel(k) ==
    CASE k = 1 -> "error"
      [] k = 2 -> "error_state_cond"
      [] k = 3 -> "error_state_mutex"
      [] k = 4 -> "error_stop_pipe"
      [] k = 5 -> "error_ctrl"
      [] OTHER -> "fini"

\* chiaki_session_init when the k-th acquisition fails (k = 0: none fails)
SessionInit ==
    /\ life = "new"
    /\ target' = InitTarget(ps5)
    /\ \E k \in 0..Len(InitResources) :
          IF k = 0
          THEN /\ init_acq' = InitResources
               /\ init_rel' = <<>>
               /\ life' = "init"
          ELSE /\ init_acq' = SubSeq(InitResources, 1, k - 1)
               /\ init_rel' = IF InitErrorLabel(k) = "fini"
                               THEN FiniReleases
                               ELSE InitUnwind(InitErrorLabel(k))
               /\ life' = "init_failed"
    /\ UNCHANGED <<ps5, event_cb, flagVars, pinVars, apiVars, attempt, ai,
                   session_sock, err, server_target, nonce_set, selected,
                   produced, open_socks, quit_reason, quit_reason_str,
                   ctrl_login_pin_requested, mutex, ctrl, ecdh, pc,
                   pin_incorrect, events, handed, canceled, stopInReq,
                   npinreq, callVars>>

(***************************************************************************)
(* The cancellable waiter.                                                 *)
(***************************************************************************)
session_check_state_pred == should_stop \/ ctrl_failed

session_check_state_pred_ctrl_start ==
    \/ should_stop
    \/ ctrl_failed
    \/ ctrl_session_id_received
    \/ ctrl_login_pin_requested

\* fault injection: the PIN wait may end without its predicate
session_check_state_pred_pin_spurious == TRUE

session_check_state_pred_pin ==
    \/ should_stop
    \/ ctrl_failed
    \/ login_pin_entered

\* chiaki_cond_timedwait_pred entered with the mutex held: a predicate that
\* already holds lets the caller go on without releasing the mutex, otherwise
\* the mutex is released while the caller waits.
WaitEnter(pred, waitpc, passpc) ==
    /\ pc' = IF pred THEN passpc ELSE waitpc
    /\ mutex' = IF pred THEN mutex ELSE "none"

\* the result of a call attached to the stop pipe: CANCELED once the pipe is
\* tripped, otherwise one of the call's own outcomes
StopPipeResult(outcomes) == IF stop_pipe THEN {"CANCELED"} ELSE outcomes

(***************************************************************************)
(* chiaki_session_send_event: the event is handed over and, if a callback  *)
(* is registered, the callback runs on the session thread (at cbpc) until  *)
(* it returns.                                                             *)
(***************************************************************************)
chiaki_session_send_event(event, cbpc) ==
    /\ events' = Append(events, event)
    /\ pc' = cbpc

\* the embedder's callback is running (lines 318-320)
CallbackRunning == event_cb /\ pc \in {"cb_pin", "cb_quit"}

(***************************************************************************)
(* session_thread_func: entry and the request phase.                       *)
(***************************************************************************)
Start ==
    /\ life = "init"
    /\ life' = "started"
    /\ pc' = "entry"
    /\ UNCHANGED <<constVars, flagVars, pinVars, reqVars, apiVars,
                   quit_reason, quit_reason_str, ctrl_login_pin_requested,
                   mutex, ctrl, ecdh, pin_incorrect, events,
                   handed, canceled, stopInReq, npinreq>>

\* lines 354-372: lock, CHECK_STOP(quit), first request
ThreadEntry ==
    /\ pc = "entry"
    /\ mutex = "none"
    /\ IF should_stop
       THEN /\ quit_reason' = "STOPPED"
            /\ mutex' = "none"
            /\ pc' = "quit"
            /\ UNCHANGED <<attempt, ai, server_target, produced, entry_qr>>
       ELSE /\ mutex' = "session"
            /\ pc' = "req_loop"
            /\ attempt' = 1
            /\ ai' = 1
            /\ server_target' = "PS4_UNKNOWN"
            /\ produced' = FALSE
            /\ entry_qr' = quit_reason
            /\ UNCHANGED quit_reason
    /\ UNCHANGED <<constVars, flagVars, pinVars, apiVars, session_sock, err,
                   conn_log, sent, resp,
                   target, nonce_set, selected, open_socks,
                   quit_reason_str, ctrl_login_pin_requested,
                   ctrl, ecdh, pin_incorrect, events,
                   handed, canceled, stopInReq, npinreq, life>>

\* the end of the candidate loop with no connected socket (lines 655-661)
ConnectFailedReason(qr) ==
    IF qr = "NONE" THEN "SESSION_REQUEST_UNKNOWN" ELSE qr

\* lines 579-623: one candidate up to the cancellable connect; a candidate is
\* skipped when malloc, the address family, getnameinfo or socket() fails
ReqCandidate ==
    /\ pc = "req_loop"
    /\ \/ /\ ai > MaxAddrs
          /\ quit_reason' = ConnectFailedReason(quit_reason)
          /\ err' = "NETWORK"
          /\ pc' = "req_ret"
          /\ UNCHANGED <<ai, session_sock, open_socks, mutex>>
       \/ /\ ai <= MaxAddrs
          /\ ai' = ai + 1
          /\ UNCHANGED <<pc, quit_reason, err, session_sock, open_socks,
                         mutex>>
       \/ /\ ai <= MaxAddrs
          /\ session_sock' = "open"
          /\ open_socks' = open_socks + 1
          /\ mutex' = "none"
          /\ pc' = "connecting"
          /\ UNCHANGED <<ai, quit_reason, err>>
    /\ UNCHANGED <<constVars, flagVars, pinVars, apiVars, attempt,
                   server_target, target, nonce_set, selected, produced,
                   callVars, quit_reason_str, ctrl_login_pin_requested,
                   ctrl, ecdh, pin_incorrect, events,
                   handed, canceled, stopInReq, npinreq, life>>

\* line 624: chiaki_stop_pipe_connect returns
ConnectReturn ==
    /\ pc = "connecting"
    /\ \E r \in StopPipeResult({"SUCCESS", "CONNECTION_REFUSED", "NETWORK"}) :
          err' = r
    /\ pc' = "connect_lock"
    /\ UNCHANGED <<constVars, flagVars, pinVars, apiVars, attempt, ai,
                   session_sock, server_target, target, nonce_set, selected,
                   produced, open_socks, callVars, quit_reason,
                   quit_reason_str, ctrl_login_pin_requested,
                   mutex, ctrl, ecdh, pin_incorrect, events,
                   handed, canceled, stopInReq, npinreq, life>>

\* fault injection: a refused connect is never cleared by a later failure
ConnectErrorReasonSticky(e) == "SESSION_REQUEST_CONNECTION_REFUSED"

\* the tentative quit reason after a failed connect (lines 638-641)
ConnectErrorReason(e) ==
    IF e = "CONNECTION_REFUSED"
    THEN "SESSION_REQUEST_CONNECTION_REFUSED"
    ELSE "NONE"

\* lines 625-661: the mutex is taken again and the connect result handled
ConnectRelock ==
    /\ pc = "connect_lock"
    /\ mutex = "none"
    /\ mutex' = "session"
    /\ conn_log' = Append(conn_log, <<ai, err>>)
    /\ IF err = "CANCELED"
       THEN /\ quit_reason' = "STOPPED"
            /\ session_sock' = "invalid"
            /\ open_socks' = open_socks - 1
            /\ canceled' = TRUE
            /\ err' = "NETWORK"
            /\ pc' = "req_ret"
            /\ UNCHANGED <<ai, selected>>
       ELSE IF err # "SUCCESS"
       THEN /\ quit_reason' = ConnectErrorReason(err)
            /\ session_sock' = "invalid"
            /\ open_socks' = open_socks - 1
            /\ ai' = ai + 1
            /\ pc' = "req_loop"
            /\ UNCHANGED <<selected, canceled, err>>
       ELSE /\ selected' = ai
            /\ pc' = "req_send"
            /\ UNCHANGED <<quit_reason, session_sock, open_socks, ai,
                           canceled, err>>
    /\ UNCHANGED <<constVars, flagVars, pinVars, apiVars, attempt,
                   server_target, target, nonce_set, produced,
                   entry_qr, sent, resp,
                   quit_reason_str, ctrl_login_pin_requested,
                   ctrl, ecdh, pin_incorrect, events,
                   handed, stopInReq, npinreq, life>>

\* lines 663-732: the request is formatted and sent
ReqSend ==
    /\ pc = "req_send"
    /\ \E fail \in {"none", "format_hex", "snprintf", "send"} :
          IF fail = "format_hex"
          THEN /\ session_sock' = "invalid"
               /\ open_socks' = open_socks - 1
               /\ quit_reason' = "SESSION_REQUEST_UNKNOWN"
               /\ err' = "UNKNOWN"
               /\ pc' = "req_ret"
               /\ UNCHANGED <<mutex, sent>>
          ELSE IF chiaki_rp_version_string(target) = NULL
          THEN /\ quit_reason' = "SESSION_REQUEST_UNKNOWN"
               /\ err' = "INVALID_DATA"
               /\ pc' = "req_ret"
               /\ UNCHANGED <<session_sock, open_socks, mutex, sent>>
          ELSE IF fail = "snprintf"
          THEN /\ session_sock' = "invalid"
               /\ open_socks' = open_socks - 1
               /\ quit_reason' = "SESSION_REQUEST_UNKNOWN"
               /\ err' = "UNKNOWN"
               /\ pc' = "req_ret"
               /\ UNCHANGED <<mutex, sent>>
          ELSE IF fail = "send"
          THEN /\ session_sock' = "invalid"
               /\ open_socks' = open_socks - 1
               /\ quit_reason' = "SESSION_REQUEST_UNKNOWN"
               /\ err' = "NETWORK"
               /\ pc' = "req_ret"
               /\ UNCHANGED <<mutex, sent>>
          ELSE /\ sent' = <<[path |-> RequestPath(target),
                             rp_version |-> chiaki_rp_version_string(target)]>>
               /\ mutex' = "none"
               /\ pc' = "recving"
               /\ UNCHANGED <<session_sock, open_socks, quit_reason, err>>
    /\ UNCHANGED <<constVars, flagVars, pinVars, apiVars, attempt, ai,
                   server_target, target, nonce_set, selected, produced,
                   entry_qr, conn_log, resp,
                   quit_reason_str, ctrl_login_pin_requested,
                   ctrl, ecdh, pin_incorrect, events,
                   handed, canceled, stopInReq, npinreq, life>>

\* line 733: chiaki_recv_http_header returns
RecvReturn ==
    /\ pc = "recving"
    /\ \E r \in StopPipeResult({"SUCCESS", "TIMEOUT"}) : err' = r
    /\ pc' = "recv_lock"
    /\ UNCHANGED <<constVars, flagVars, pinVars, apiVars, attempt, ai,
                   session_sock, server_target, target, nonce_set, selected,
                   produced, open_socks, callVars, quit_reason,
                   quit_reason_str, ctrl_login_pin_requested,
                   mutex, ctrl, ecdh, pin_incorrect, events,
                   handed, canceled, stopInReq, npinreq, life>>

\* the quit reason after a failed receive (lines 738-746)
\* fault injection: a receive that was cancelled is reported like any other
\* receive failure
RecvErrorReasonNoCancel(e) == "SESSION_REQUEST_UNKNOWN"

RecvErrorReason(e) ==
    IF e = "CANCELED" THEN "STOPPED" ELSE "SESSION_REQUEST_UNKNOWN"

\* lines 734-824: the mutex is taken again, the response parsed and classified
RecvRelock ==
    /\ pc = "recv_lock"
    /\ mutex = "none"
    /\ mutex' = "session"
    /\ session_sock' = "invalid"
    /\ open_socks' = open_socks - 1
    /\ pc' = "req_ret"
    /\ IF err # "SUCCESS"
       THEN /\ quit_reason' = RecvErrorReason(err)
            /\ canceled' = (canceled \/ err = "CANCELED")
            /\ err' = "NETWORK"
            /\ UNCHANGED <<server_target, nonce_set, produced, resp>>
       ELSE /\ UNCHANGED canceled
            /\ \/ /\ quit_reason' = "SESSION_REQUEST_UNKNOWN"
                  /\ err' = "NETWORK"
                  /\ UNCHANGED <<server_target, nonce_set, produced, resp>>
               \/ \E http \in Responses :
                     LET c == ClassifyResponse(http, target, ps5, attempt < 3,
                                               server_target, quit_reason)
                     IN  /\ resp' = <<http>>
                         /\ err' = c.r
                         /\ quit_reason' = c.qr
                         /\ server_target' = c.st
                         /\ nonce_set' = (nonce_set \/ c.nonce)
                         /\ produced' = (/\ c.wrote
                                         /\ ~chiaki_target_is_unknown(c.st))
    /\ UNCHANGED <<constVars, flagVars, pinVars, apiVars, attempt, ai,
                   target, selected, entry_qr, conn_log, sent,
                   quit_reason_str,
                   ctrl_login_pin_requested, ctrl, ecdh,
                   pin_incorrect, events, handed, stopInReq, npinreq, life>>

\* fault injection: the re-request does not test the reported target
AfterRequestNoTargetTest(k, e, st) ==
    IF k = 1 \/ k = 2
    THEN IF e = "VERSION_MISMATCH"
         THEN "retry"
         ELSE IF e # "SUCCESS" THEN "quit" ELSE "proceed"
    ELSE IF e # "SUCCESS" THEN "quit" ELSE "proceed"

\* lines 372-393: what session_thread_func does with the result of request
\* attempt k: "retry" (another request), "quit" or "proceed"
AfterRequest(k, e, st) ==
    IF k = 1 \/ k = 2
    THEN IF e = "VERSION_MISMATCH" /\ ~chiaki_target_is_unknown(st)
         THEN "retry"
         ELSE IF e # "SUCCESS" THEN "quit" ELSE "proceed"
    ELSE IF e # "SUCCESS" THEN "quit" ELSE "proceed"

\* lines 372-400: a request attempt has returned
ReqReturn ==
    /\ pc = "req_ret"
    /\ LET next == AfterRequest(attempt, err, server_target)
       IN  IF next = "retry"
           THEN /\ target' = server_target
                /\ attempt' = attempt + 1
                /\ ai' = 1
                /\ pc' = "req_loop"
                /\ entry_qr' = quit_reason
                /\ UNCHANGED <<mutex, server_target>>
           ELSE /\ IF next = "quit"
                   THEN /\ mutex' = "none"
                        /\ pc' = "quit"
                   ELSE WaitEnter(session_check_state_pred, "wait10",
                                  "ctrl_start")
                \* the locals of the request phase are dead from here on
                /\ ai' = 0
                /\ server_target' = "PS4_UNKNOWN"
                /\ attempt' = 0
                /\ entry_qr' = "NONE"
                /\ UNCHANGED target
    /\ session_sock' = "invalid"
    /\ produced' = FALSE
    /\ conn_log' = <<>>
    /\ sent' = <<>>
    /\ resp' = <<>>
    /\ UNCHANGED <<constVars, flagVars, pinVars, apiVars, err, nonce_set,
                   selected, open_socks, quit_reason, quit_reason_str,
                   ctrl_login_pin_requested, ctrl, ecdh,
                   pin_incorrect, events, handed, canceled, stopInReq,
                   npinreq, life>>

(***************************************************************************)
(* session_thread_func: control channel start and the PIN loop.            *)
(***************************************************************************)
\* a wait of bounded timeout ends: the predicate holds or the time is up
WaitTimedReturn(waitpc, nextpc) ==
    /\ pc = waitpc
    /\ mutex = "none"
    /\ mutex' = "session"
    /\ pc' = nextpc
    /\ UNCHANGED <<constVars, flagVars, pinVars, reqVars, apiVars,
                   quit_reason, quit_reason_str, ctrl_login_pin_requested,
                   ctrl, ecdh, pin_incorrect, events,
                   handed, canceled, stopInReq, npinreq, life>>

\* line 400: the 10 ms settling wait ends
Wait10Return == WaitTimedReturn("wait10", "ctrl_start")

\* lines 404-408: chiaki_ctrl_start, then the wait for the ctrl start
\* fault injection: a failed chiaki_ctrl_start leaves through quit_ctrl
CtrlStartFailureJoins ==
    /\ pc = "ctrl_start"
    /\ \/ /\ mutex' = "none"
          /\ pc' = "quit_ctrl"
          /\ UNCHANGED ctrl
       \/ /\ ctrl' = IF ctrl = "idle" THEN "running" ELSE "misuse"
          /\ WaitEnter(session_check_state_pred_ctrl_start, "wait_ctrl1",
                       "after_wait1")
    /\ UNCHANGED <<constVars, flagVars, pinVars, reqVars, apiVars,
                   quit_reason, quit_reason_str, ctrl_login_pin_requested,
                   ecdh, pin_incorrect, events, handed,
                   canceled, stopInReq, npinreq, life>>

CtrlStart ==
    /\ pc = "ctrl_start"
    /\ \/ /\ mutex' = "none"
          /\ pc' = "quit"
          /\ UNCHANGED ctrl
       \/ /\ ctrl' = IF ctrl = "idle" THEN "running" ELSE "misuse"
          /\ WaitEnter(session_check_state_pred_ctrl_start, "wait_ctrl1",
                       "after_wait1")
    /\ UNCHANGED <<constVars, flagVars, pinVars, reqVars, apiVars,
                   quit_reason, quit_reason_str, ctrl_login_pin_requested,
                   ecdh, pin_incorrect, events, handed,
                   canceled, stopInReq, npinreq, life>>

\* line 408: the wait for the ctrl start ends
WaitCtrl1Return == WaitTimedReturn("wait_ctrl1", "after_wait1")

\* the ctrl_failed label (lines 455-459)
CtrlFailedReason(qr) == IF qr = "NONE" THEN "CTRL_UNKNOWN" ELSE qr

\* lines 409-417: CHECK_STOP(quit_ctrl), the ctrl_failed test, pin_incorrect
AfterWait1 ==
    /\ pc = "after_wait1"
    /\ IF should_stop
       THEN /\ quit_reason' = "STOPPED"
            /\ mutex' = "none"
            /\ pc' = "quit_ctrl"
       ELSE IF ctrl_failed
       THEN /\ quit_reason' = CtrlFailedReason(quit_reason)
            /\ mutex' = "none"
            /\ pc' = "quit_ctrl"
       ELSE /\ pc' = "pin_loop"
            /\ UNCHANGED <<quit_reason, mutex>>
    /\ pin_incorrect' = FALSE
    /\ UNCHANGED <<constVars, flagVars, pinVars, reqVars, apiVars,
                   quit_reason_str, ctrl_login_pin_requested,
                   ctrl, ecdh, events, handed, canceled,
                   stopInReq, npinreq, life>>

\* the events of the embedder's callback (ChiakiEvent)
\* fault injection: the event never reports a rejected PIN
LoginPinRequestEventStale(incorrect) ==
    [type |-> "LOGIN_PIN_REQUEST", pin_incorrect |-> FALSE,
     reason |-> "NONE", reason_str |-> NULL]

LoginPinRequestEvent(incorrect) ==
    [type |-> "LOGIN_PIN_REQUEST", pin_incorrect |-> incorrect,
     reason |-> "NONE", reason_str |-> NULL]

QuitEvent(reason, str) ==
    [type |-> "QUIT", pin_incorrect |-> FALSE, reason |-> reason,
     reason_str |-> str]

\* free(): a live buffer dies, the null pointer 0 is ignored, anything else
\* is an error
HeapFree(h, p) ==
    IF p # 0 /\ h[p] = "live" THEN [h EXCEPT ![p] = "freed"] ELSE h

HeapFreeErr(h, p) == p # 0 /\ h[p] # "live"

\* lines 418-431 and 452-460: the loop test; in the loop the flag is
\* cleared and LOGIN_PIN_REQUEST sent (the callback runs with state_mutex
\* held); after the loop the session id gate
PinLoop ==
    /\ pc = "pin_loop"
    /\ IF ctrl_login_pin_requested
       THEN /\ ctrl_login_pin_requested' = FALSE
            /\ chiaki_session_send_event(LoginPinRequestEvent(pin_incorrect),
                                         "cb_pin")
            /\ UNCHANGED <<quit_reason, mutex>>
       ELSE /\ IF ~ctrl_session_id_received
               THEN /\ quit_reason' = CtrlFailedReason(quit_reason)
                    /\ mutex' = "none"
                    /\ pc' = "quit_ctrl"
               ELSE /\ pc' = "probe_init"
                    /\ UNCHANGED <<quit_reason, mutex>>
            /\ UNCHANGED <<ctrl_login_pin_requested, events>>
    /\ UNCHANGED <<constVars, flagVars, pinVars, reqVars, apiVars,
                   quit_reason_str, ctrl, ecdh, pin_incorrect, handed,
                   canceled, stopInReq, npinreq, life>>

\* lines 428-431: the LOGIN_PIN_REQUEST callback returns
CbPinReturn ==
    /\ pc = "cb_pin"
    /\ cpc["cb"] = "idle"
    /\ pin_incorrect' = TRUE
    /\ WaitEnter(session_check_state_pred_pin, "pin_wait", "after_pin_wait")
    /\ UNCHANGED <<constVars, flagVars, pinVars, reqVars, apiVars,
                   quit_reason, quit_reason_str, ctrl_login_pin_requested,
                   ctrl, ecdh, events, handed, canceled,
                   stopInReq, npinreq, life>>

\* line 431: the wait for the PIN (no timeout) ends
PinWaitReturn ==
    /\ pc = "pin_wait"
    /\ mutex = "none"
    /\ session_check_state_pred_pin
    /\ mutex' = "session"
    /\ pc' = "after_pin_wait"
    /\ UNCHANGED <<constVars, flagVars, pinVars, reqVars, apiVars,
                   quit_reason, quit_reason_str, ctrl_login_pin_requested,
                   ctrl, ecdh, pin_incorrect, events,
                   handed, canceled, stopInReq, npinreq, life>>

\* lines 432-448: CHECK_STOP, the ctrl_failed test, the assertion, the PIN
\* is handed to ctrl and the slot cleared, then the wait for the session id
AfterPinWait ==
    /\ pc = "after_pin_wait"
    /\ IF should_stop
       THEN /\ quit_reason' = "STOPPED"
            /\ mutex' = "none"
            /\ pc' = "quit_ctrl"
            /\ UNCHANGED <<pinVars, handed>>
       ELSE IF ctrl_failed
       THEN /\ quit_reason' = CtrlFailedReason(quit_reason)
            /\ mutex' = "none"
            /\ pc' = "quit_ctrl"
            /\ UNCHANGED <<pinVars, handed>>
       ELSE IF ~(login_pin_entered /\ login_pin # 0)
       THEN /\ pc' = "abort"
            /\ UNCHANGED <<quit_reason, mutex, pinVars, handed>>
       ELSE /\ handed' = handed + 1
            /\ login_pin_entered' = FALSE
            /\ heap' = HeapFree(heap, login_pin)
            /\ heap_err' = (heap_err \/ HeapFreeErr(heap, login_pin))
            /\ login_pin' = 0
            /\ login_pin_size' = 0
            /\ WaitEnter(session_check_state_pred_ctrl_start, "wait_ctrl2",
                         "after_wait2")
            /\ UNCHANGED quit_reason
    /\ UNCHANGED <<constVars, flagVars, reqVars, apiVars, quit_reason_str,
                   ctrl_login_pin_requested, ctrl, ecdh,
                   pin_incorrect, events, canceled, stopInReq, npinreq, life>>

\* line 448: the wait for the session id ends
WaitCtrl2Return == WaitTimedReturn("wait_ctrl2", "after_wait2")

\* line 449: CHECK_STOP(quit_ctrl), then the loop test again
AfterWait2 ==
    /\ pc = "after_wait2"
    /\ IF should_stop
       THEN /\ quit_reason' = "STOPPED"
            /\ mutex' = "none"
            /\ pc' = "quit_ctrl"
       ELSE /\ pc' = "pin_loop"
            /\ UNCHANGED <<quit_reason, mutex>>
    /\ UNCHANGED <<constVars, flagVars, pinVars, reqVars, apiVars,
                   quit_reason_str, ctrl_login_pin_requested,
                   ctrl, ecdh, pin_incorrect, events,
                   handed, canceled, stopInReq, npinreq, life>>

(***************************************************************************)
(* session_thread_func: probe, crypto, stream, teardown.                   *)
(***************************************************************************)
\* lines 465-470: chiaki_senkusha_init, then the run starts (mutex held)
ProbeInit ==
    /\ pc = "probe_init"
    /\ \/ /\ mutex' = "none"
          /\ pc' = "quit_ctrl"
       \/ /\ pc' = "probe_run"
          /\ UNCHANGED mutex
    /\ UNCHANGED <<constVars, flagVars, pinVars, reqVars, apiVars,
                   quit_reason, quit_reason_str, ctrl_login_pin_requested,
                   ctrl, ecdh, pin_incorrect, events,
                   handed, canceled, stopInReq, npinreq, life>>

\* lines 470-483: chiaki_senkusha_run returns
ProbeReturn ==
    /\ pc = "probe_run"
    /\ \E r \in {"SUCCESS", "CANCELED", "UNKNOWN"} :
          IF r = "CANCELED"
          THEN /\ canceled' = TRUE
               /\ mutex' = "none"
               /\ pc' = "quit_ctrl"
          ELSE /\ pc' = "crypto"
               /\ UNCHANGED <<canceled, mutex>>
    /\ UNCHANGED <<constVars, flagVars, pinVars, reqVars, apiVars,
                   quit_reason, quit_reason_str, ctrl_login_pin_requested,
                   ctrl, ecdh, pin_incorrect, events,
                   handed, stopInReq, npinreq, life>>

\* lines 486-501: the handshake key, ECDH, then the stream run starts
CryptoPrep ==
    /\ pc = "crypto"
    /\ \E fail \in {"none", "random", "ecdh"} :
          IF fail # "none"
          THEN /\ mutex' = "none"
               /\ pc' = "quit_ctrl"
               /\ UNCHANGED ecdh
          ELSE /\ ecdh' = IF ecdh = "none" THEN "init" ELSE "misuse"
               /\ mutex' = "none"
               /\ pc' = "stream_run"
    /\ UNCHANGED <<constVars, flagVars, pinVars, reqVars, apiVars,
                   quit_reason, quit_reason_str, ctrl_login_pin_requested,
                   ctrl, pin_incorrect, events, handed,
                   canceled, stopInReq, npinreq, life>>

\* line 501: chiaki_stream_connection_run returns; CANCELED needs the stop
StreamReturn ==
    /\ pc = "stream_run"
    /\ \E r \in {"SUCCESS", "DISCONNECTED", "UNKNOWN"}
                  \cup (IF should_stop THEN {"CANCELED"} ELSE {}) :
          err' = r
    /\ pc' = "stream_lock"
    /\ UNCHANGED <<constVars, flagVars, pinVars, apiVars, attempt, ai,
                   session_sock, server_target, target, nonce_set, selected,
                   produced, open_socks, callVars, quit_reason,
                   quit_reason_str, ctrl_login_pin_requested,
                   mutex, ctrl, ecdh, pin_incorrect, events,
                   handed, canceled, stopInReq, npinreq, life>>

\* fault injection: a cancelled stream run is classified as a failure
StreamQuitReasonCancelFails(e) ==
    IF e = "DISCONNECTED"
    THEN "STREAM_CONNECTION_REMOTE_DISCONNECTED"
    ELSE IF e # "SUCCESS"
    THEN "STREAM_CONNECTION_UNKNOWN"
    ELSE "STOPPED"

\* lines 503-518: the quit reason of a stream result
StreamQuitReason(e) ==
    IF e = "DISCONNECTED"
    THEN "STREAM_CONNECTION_REMOTE_DISCONNECTED"
    ELSE IF e # "SUCCESS" /\ e # "CANCELED"
    THEN "STREAM_CONNECTION_UNKNOWN"
    ELSE "STOPPED"

\* lines 502-521: lock, classify the stream result, unlock, chiaki_ecdh_fini
StreamRelock ==
    /\ pc = "stream_lock"
    /\ mutex = "none"
    /\ quit_reason' = StreamQuitReason(err)
    /\ IF err = "DISCONNECTED"
       THEN quit_reason_str' \in {"remote_disconnect_reason", NULL}
       ELSE UNCHANGED quit_reason_str
    /\ canceled' = (canceled \/ err = "CANCELED")
    /\ ecdh' = IF ecdh = "init" THEN "fini" ELSE "misuse"
    /\ pc' = "quit_ctrl"
    /\ UNCHANGED <<constVars, flagVars, pinVars, reqVars, apiVars,
                   ctrl_login_pin_requested, mutex, ctrl,
                   pin_incorrect, events, handed, stopInReq, npinreq, life>>

\* lines 523-526: chiaki_ctrl_stop and chiaki_ctrl_join
\* fault injection: the thread returns from the quit_ctrl label without
\* falling through to the quit label
QuitCtrlReturnsEarly ==
    /\ pc = "quit_ctrl"
    /\ ctrl' = "joined"
    /\ pc' = "returned"
    /\ UNCHANGED <<constVars, flagVars, pinVars, reqVars, apiVars,
                   quit_reason, quit_reason_str, ctrl_login_pin_requested,
                   mutex, ecdh, pin_incorrect, events,
                   handed, canceled, stopInReq, npinreq, life>>

QuitCtrl ==
    /\ pc = "quit_ctrl"
    /\ ctrl' = IF ctrl = "running" THEN "joined" ELSE "misuse"
    /\ pc' = "quit"
    /\ UNCHANGED <<constVars, flagVars, pinVars, reqVars, apiVars,
                   quit_reason, quit_reason_str, ctrl_login_pin_requested,
                   mutex, ecdh, pin_incorrect, events,
                   handed, canceled, stopInReq, npinreq, life>>

\* lines 529-536: the QUIT event is built from quit_reason and sent
SendQuit ==
    /\ pc = "quit"
    /\ chiaki_session_send_event(QuitEvent(quit_reason, quit_reason_str),
                                 "cb_quit")
    /\ UNCHANGED <<constVars, flagVars, pinVars, reqVars, apiVars,
                   quit_reason, quit_reason_str, ctrl_login_pin_requested,
                   mutex, ctrl, ecdh, pin_incorrect, handed, canceled,
                   stopInReq, npinreq, life>>

\* line 536: the QUIT callback returns and the thread function returns
CbQuitReturn ==
    /\ pc = "cb_quit"
    /\ cpc["cb"] = "idle"
    /\ pc' = "returned"
    /\ UNCHANGED <<constVars, flagVars, pinVars, reqVars, apiVars,
                   quit_reason, quit_reason_str, ctrl_login_pin_requested,
                   mutex, ctrl, ecdh, pin_incorrect, events,
                   handed, canceled, stopInReq, npinreq, life>>

(***************************************************************************)
(* The public API, called by the embedder's thread ("emb") between start   *)
(* and join, or by the event callback ("cb") on the session thread.        *)
(***************************************************************************)
CanCall(c) ==
    /\ cpc[c] = "idle"
    /\ IF c = "cb" THEN CallbackRunning ELSE life = "started"

\* chiaki_session_stop is entered (line 268: about to lock state_mutex)
CallStop(c) ==
    /\ CanCall(c)
    /\ cpc' = [cpc EXCEPT ![c] = "stop_lock"]
    /\ UNCHANGED <<constVars, flagVars, pinVars, reqVars, cbuf, csize,
                   quit_reason, quit_reason_str, ctrl_login_pin_requested,
                   mutex, ctrl, ecdh, pc, pin_incorrect,
                   events, handed, canceled, stopInReq, npinreq, life>>

\* chiaki_mutex_lock on the non-recursive state_mutex returns
MutexLock(c, frompc, topc) ==
    /\ cpc[c] = frompc
    /\ mutex = "none"
    /\ mutex' = ThreadOf(c)
    /\ cpc' = [cpc EXCEPT ![c] = topc]
    /\ UNCHANGED <<constVars, flagVars, pinVars, reqVars, cbuf, csize, quit_reason, quit_reason_str, ctrl_login_pin_requested,
                   ctrl, ecdh, pc, pin_incorrect, events,
                   handed, canceled, stopInReq, npinreq, life>>

\* line 268
StopAcquire(c) == MutexLock(c, "stop_lock", "stop_crit")

\* lines 271-278
StopBody(c) ==
    /\ cpc[c] = "stop_crit"
    /\ should_stop' = TRUE
    /\ stop_pipe' = TRUE
    /\ mutex' = "none"
    /\ cpc' = [cpc EXCEPT ![c] = "idle"]
    /\ stopInReq' = (stopInReq \/ pc \in {"connecting", "recving"})
    /\ UNCHANGED <<constVars, ctrl_failed, ctrl_session_id_received, pinVars,
                   reqVars, cbuf, csize, quit_reason, quit_reason_str,
                   ctrl_login_pin_requested, ctrl, ecdh, pc,
                   pin_incorrect, events, handed, canceled, npinreq, life>>

\* the pin_size arguments: an empty PIN and a four digit PIN
PinSizes == {0, 4}

\* lines 300-303: malloc(pin_size) and the copy; malloc may return NULL
CallSetLoginPin(c) ==
    /\ CanCall(c)
    /\ Len(heap) < MaxPins
    /\ \E pin_size \in PinSizes, buf_ok \in BOOLEAN :
          IF buf_ok
          THEN /\ heap' = Append(heap, "live")
               /\ cbuf' = [cbuf EXCEPT ![c] = Len(heap) + 1]
               /\ csize' = [csize EXCEPT ![c] = pin_size]
               /\ cpc' = [cpc EXCEPT ![c] = "slp_lock"]
          ELSE UNCHANGED <<heap, cbuf, csize, cpc>>
    /\ UNCHANGED <<constVars, flagVars, reqVars, login_pin_entered, login_pin,
                   login_pin_size, heap_err, quit_reason, quit_reason_str,
                   ctrl_login_pin_requested, mutex, ctrl,
                   ecdh, pc, pin_incorrect, events, handed, canceled,
                   stopInReq, npinreq, life>>

\* line 304
SetLoginPinAcquire(c) == MutexLock(c, "slp_lock", "slp_crit")

\* lines 306-313
\* fault injection: a PIN that is replaced is not freed
ReplacedPinHeapLeak(h, entered, p) == h

\* the heap after "if(login_pin_entered) free(login_pin)"
ReplacedPinHeap(h, entered, p) == IF entered THEN HeapFree(h, p) ELSE h

SetLoginPinBody(c) ==
    /\ cpc[c] = "slp_crit"
    /\ heap' = ReplacedPinHeap(heap, login_pin_entered, login_pin)
    /\ heap_err' = (heap_err
                    \/ (login_pin_entered /\ HeapFreeErr(heap, login_pin)))
    /\ login_pin_entered' = TRUE
    /\ login_pin' = cbuf[c]
    /\ login_pin_size' = csize[c]
    /\ mutex' = "none"
    /\ cpc' = [cpc EXCEPT ![c] = "idle"]
    /\ cbuf' = [cbuf EXCEPT ![c] = 0]
    /\ csize' = [csize EXCEPT ![c] = 0]
    /\ UNCHANGED <<constVars, flagVars, reqVars, quit_reason,
                   quit_reason_str, ctrl_login_pin_requested,
                   ctrl, ecdh, pc, pin_incorrect, events,
                   handed, canceled, stopInReq, npinreq, life>>

\* lines 286-296: chiaki_session_set_controller_state works under the stream
\* connection's feedback_sender_mutex (held by the caller that is at
\* "scs_crit") and never touches state_mutex
CallSetControllerState(c) ==
    /\ CanCall(c)
    /\ \A d \in Callers : cpc[d] # "scs_crit"
    /\ cpc' = [cpc EXCEPT ![c] = "scs_crit"]
    /\ UNCHANGED <<constVars, flagVars, pinVars, reqVars, cbuf, csize,
                   quit_reason, quit_reason_str, ctrl_login_pin_requested,
                   mutex, ctrl, ecdh, pc, pin_incorrect, events, handed,
                   canceled, stopInReq, npinreq, life>>

\* lines 291-295: the latch is written and the feedback mutex released
SetControllerStateBody(c) ==
    /\ cpc[c] = "scs_crit"
    /\ cpc' = [cpc EXCEPT ![c] = "idle"]
    /\ UNCHANGED <<constVars, flagVars, pinVars, reqVars, cbuf, csize,
                   quit_reason, quit_reason_str, ctrl_login_pin_requested,
                   mutex, ctrl, ecdh, pc, pin_incorrect, events, handed,
                   canceled, stopInReq, npinreq, life>>

\* chiaki_session_join returns once the session thread has returned
Join ==
    /\ life = "started"
    /\ pc = "returned"
    /\ cpc["emb"] = "idle"
    /\ life' = "joined"
    /\ UNCHANGED <<constVars, flagVars, pinVars, reqVars, apiVars,
                   quit_reason, quit_reason_str, ctrl_login_pin_requested,
                   mutex, ctrl, ecdh, pc, pin_incorrect,
                   events, handed, canceled, stopInReq, npinreq>>

\* chiaki_session_fini: free(login_pin), free(quit_reason_str), ...
Fini ==
    /\ life = "joined"
    /\ life' = "finished"
    /\ heap' = HeapFree(heap, login_pin)
    /\ heap_err' = (heap_err \/ HeapFreeErr(heap, login_pin))
    /\ UNCHANGED <<constVars, flagVars, reqVars, apiVars, login_pin_entered,
                   login_pin, login_pin_size, quit_reason, quit_reason_str,
                   ctrl_login_pin_requested, mutex, ctrl,
                   ecdh, pc, pin_incorrect, events, handed, canceled,
                   stopInReq, npinreq>>

(***************************************************************************)
(* The control channel: while it runs it sets, under state_mutex, one of   *)
(* its flags and signals state_cond.                                       *)
(***************************************************************************)
CtrlSetsFailed ==
    /\ ctrl = "running"
    /\ mutex = "none"
    /\ ~ctrl_failed
    /\ ctrl_failed' = TRUE
    /\ UNCHANGED <<constVars, should_stop, stop_pipe,
                   ctrl_session_id_received, pinVars, reqVars, apiVars,
                   quit_reason, quit_reason_str, ctrl_login_pin_requested,
                   mutex, ctrl, ecdh, pc, pin_incorrect,
                   events, handed, canceled, stopInReq, npinreq, life>>

CtrlSetsSessionId ==
    /\ ctrl = "running"
    /\ mutex = "none"
    /\ ~ctrl_session_id_received
    /\ ctrl_session_id_received' = TRUE
    /\ UNCHANGED <<constVars, should_stop, stop_pipe, ctrl_failed, pinVars,
                   reqVars, apiVars, quit_reason, quit_reason_str,
                   ctrl_login_pin_requested, mutex, ctrl,
                   ecdh, pc, pin_incorrect, events, handed, canceled,
                   stopInReq, npinreq, life>>

CtrlRequestsPin ==
    /\ ctrl = "running"
    /\ mutex = "none"
    /\ npinreq < MaxPinReq
    /\ ~ctrl_login_pin_requested
    /\ ctrl_login_pin_requested' = TRUE
    /\ npinreq' = npinreq + 1
    /\ UNCHANGED <<constVars, flagVars, pinVars, reqVars, apiVars,
                   quit_reason, quit_reason_str, mutex,
                   ctrl, ecdh, pc, pin_incorrect, events, handed, canceled,
                   stopInReq, life>>

(***************************************************************************)
(* The specification.                                                      *)
(***************************************************************************)
SessionThread ==
    \/ ThreadEntry
    \/ ReqCandidate
    \/ ConnectReturn
    \/ ConnectRelock
    \/ ReqSend
    \/ RecvReturn
    \/ RecvRelock
    \/ ReqReturn
    \/ Wait10Return
    \/ CtrlStart
    \/ WaitCtrl1Return
    \/ AfterWait1
    \/ PinLoop
    \/ CbPinReturn
    \/ PinWaitReturn
    \/ AfterPinWait
    \/ WaitCtrl2Return
    \/ AfterWait2
    \/ ProbeInit
    \/ ProbeReturn
    \/ CryptoPrep
    \/ StreamReturn
    \/ StreamRelock
    \/ QuitCtrl
    \/ SendQuit
    \/ CbQuitReturn

Api ==
    \E c \in Callers :
        \/ CallStop(c)
        \/ StopAcquire(c)
        \/ StopBody(c)
        \/ CallSetLoginPin(c)
        \/ SetLoginPinAcquire(c)
        \/ SetLoginPinBody(c)
        \/ CallSetControllerState(c)
        \/ SetControllerStateBody(c)

Ctrl ==
    \/ CtrlSetsFailed
    \/ CtrlSetsSessionId
    \/ CtrlRequestsPin

Next ==
    \/ SessionInit
    \/ Start
    \/ SessionThread
    \/ Api
    \/ Ctrl
    \/ Join
    \/ Fini

Spec == Init /\ [][Next]_vars


(***************************************************************************)
(* Properties.                                                             *)
(***************************************************************************)
QuitIndices == {i \in DOMAIN events : events[i].type = "QUIT"}

PinRequestIndices ==
    {i \in DOMAIN events : events[i].type = "LOGIN_PIN_REQUEST"}

\* C1: in every run of the session thread to its return exactly one QUIT
\* event is sent, and it is the last event sent.
C1_ExactlyOneQuitLast ==
    /\ \A i \in QuitIndices : i = Len(events)
    /\ (pc = "returned") => (QuitIndices # {})
    /\ (QuitIndices # {}) => (pc \in {"cb_quit", "returned"})

C1_Witness ==
    /\ pc = "returned"
    /\ Len(events) = 3
    /\ events[3].type = "QUIT"

\* steps that move the session thread or a call already in progress
Unblocking ==
    \/ SessionThread
    \/ \E c \in Callers :
          \/ StopAcquire(c)
          \/ StopBody(c)
          \/ SetLoginPinAcquire(c)
          \/ SetLoginPinBody(c)
          \/ SetControllerStateBody(c)

StopCalled ==
    should_stop \/ \E c \in Callers : cpc[c] \in {"stop_lock", "stop_crit"}

\* C2: once stop() has been called after start(), the session thread goes on
\* to emit QUIT and return: it is never left in a state in which neither the
\* thread nor any call in progress can take a step.
C2_StopLeadsToReturn ==
    StopCalled => (pc = "returned" \/ ENABLED Unblocking)

\* C3: stop() and set_login_pin() may be called from any thread, the event
\* callback included, and return: no caller waits for state_mutex while its
\* own thread holds it.
C3_ApiCallsReturn ==
    \A c \in Callers :
        (cpc[c] \in {"stop_lock", "slp_lock"}) => (mutex # ThreadOf(c))

\* C4: whenever a connect, a receive, the probe or the stream run returned
\* CANCELED, the QUIT event carries the reason STOPPED.
C4_CanceledQuitsStopped ==
    canceled => \A i \in QuitIndices : events[i].reason = "STOPPED"

RequestCancelPcs ==
    {"connecting", "connect_lock", "recving", "recv_lock", "req_ret",
     "quit", "cb_quit", "returned"}

\* C5: if the stop pipe trips while the session request is blocked in connect
\* or in the receive of the response headers, the request returns an error,
\* no further attempt is made, ctrl is never started, no LOGIN_PIN_REQUEST is
\* emitted and the QUIT reason is STOPPED.
C5_CancelMidHandshake ==
    stopInReq =>
        /\ pc \in RequestCancelPcs
        /\ (pc = "req_ret") => (err = "NETWORK")
        /\ (pc \in {"req_ret", "quit", "cb_quit", "returned"})
              => (quit_reason = "STOPPED")
        /\ ctrl = "idle"
        /\ PinRequestIndices = {}
        /\ \A i \in QuitIndices : events[i].reason = "STOPPED"

C5_Witness ==
    /\ stopInReq
    /\ pc = "returned"
    /\ target # InitTarget(ps5)
    /\ QuitIndices # {}

\* positions at which the session thread's next step reads or writes guarded
\* fields or unlocks state_mutex
SessionGuardedPcs ==
    {"req_loop", "req_send", "req_ret", "ctrl_start", "after_wait1",
     "pin_loop", "cb_pin", "after_pin_wait", "after_wait2", "probe_init",
     "probe_run", "crypto", "quit"}

\* positions at which the session thread's next step locks state_mutex
SessionLockPcs ==
    {"entry", "connect_lock", "recv_lock", "stream_lock", "wait10",
     "wait_ctrl1", "wait_ctrl2", "pin_wait"}

\* positions at which the session thread is inside connect, the receive or
\* the stream run, or has returned
SessionUnheldPcs == {"connecting", "recving", "stream_run", "returned"}

\* C6: the session thread holds state_mutex whenever it accesses guarded
\* fields, does not hold it during connect, the receive and the stream run
\* nor when it returns, and never locks it while holding it; an embedder
\* call that has returned does not hold it.
C6_LockDiscipline ==
    /\ (pc \in SessionGuardedPcs) => (mutex = "session")
    /\ (pc \in SessionUnheldPcs) => (mutex # "session")
    /\ (pc \in SessionLockPcs) => (mutex # "session")
    /\ \A c \in Callers :
          (ThreadOf(c) = "session" /\ cpc[c] \in {"stop_lock", "slp_lock"})
              => (mutex # "session")
    /\ (cpc["emb"] = "idle") => (mutex # "embedder")

\* C7: login_pin_entered implies a non-null login_pin and a positive
\* login_pin_size, also after a call with pin_size = 0.
C7_EnteredPinNonEmpty ==
    login_pin_entered => (login_pin # 0 /\ login_pin_size > 0)

HeapRefs ==
    {b \in {login_pin} \cup {cbuf[c] : c \in Callers} : b # 0}

LiveBuffers == {b \in DOMAIN heap : heap[b] = "live"}

\* C8: the session owns the PIN buffer exactly while login_pin_entered is
\* set, and every buffer is freed exactly once: never twice, and none is
\* left allocated after fini.
C8_PinOwnership ==
    /\ (mutex = "none" /\ life # "finished")
          => ((login_pin # 0) <=> login_pin_entered)
    /\ ~heap_err
    /\ (life # "finished") => (LiveBuffers = HeapRefs)
    /\ (life = "finished") => (LiveBuffers = {})

C8_Witness ==
    /\ life = "finished"
    /\ Len(heap) = MaxPins
    /\ handed = 1
    /\ login_pin # 0

C9_Events ==
    /\ \A i \in PinRequestIndices : events[i].pin_incorrect = (i > 1)
    /\ IF PinRequestIndices = {}
       THEN handed = 0
       ELSE handed \in {Cardinality(PinRequestIndices) - 1,
                        Cardinality(PinRequestIndices)}

C9_HandOver ==
    (handed' # handed)
        => /\ handed' = handed + 1
           /\ login_pin_entered /\ login_pin # 0
           /\ ~login_pin_entered' /\ login_pin' = 0 /\ login_pin_size' = 0

\* C9: the first LOGIN_PIN_REQUEST has pin_incorrect = false and every later
\* one has it true; between two consecutive requests exactly one PIN is
\* handed to ctrl; the hand-over clears the slot.
C9_PinRequestSequence == []C9_Events /\ [][C9_HandOver]_vars

C9_Witness ==
    /\ Cardinality(PinRequestIndices) = 2
    /\ handed = 2
    /\ events[2].pin_incorrect

\* C10: a further request attempt is made only after an attempt that
\* returned VERSION_MISMATCH and itself produced a known server target.
C10_LinearRenegotiation ==
    [][(attempt >= 1 /\ attempt' = attempt + 1)
          => (err = "VERSION_MISMATCH" /\ produced)]_vars

\* C11: once chiaki_session_init has run, session.target is never
\* PS4_UNKNOWN or PS5_UNKNOWN.
C11_TargetKnown == (life # "new") => ~chiaki_target_is_unknown(target)

C11_Witness ==
    /\ attempt = 3
    /\ target # InitTarget(ps5)
    /\ pc = "recving"

QuitPathPcs == {"quit", "cb_quit", "returned"}

\* from the quit label to the return the thread changes neither the quit
\* reason nor the control channel
QuitPathStep ==
    (pc \in QuitPathPcs)
        => /\ pc' \in QuitPathPcs
           /\ quit_reason' = quit_reason
           /\ ctrl' = ctrl

\* every QUIT event sent carries the session's quit reason
QuitCarriesReason == \A i \in QuitIndices : events[i].reason = quit_reason

\* the response just classified had code 200 and an RP-Nonce that did not
\* decode to 16 bytes
BadNonceResponse ==
    /\ pc = "req_ret"
    /\ resp # <<>>
    /\ resp[1].code200
    /\ resp[1].nonce = "bad"

C12_State ==
    /\ (pc = "req_ret" /\ err = "SUCCESS")
          => /\ resp # <<>>
             /\ resp[1].code200
             /\ resp[1].nonce = "nonce16"
             /\ nonce_set
    /\ BadNonceResponse
          => /\ err \notin {"SUCCESS", "VERSION_MISMATCH"}
             /\ quit_reason = "SESSION_REQUEST_UNKNOWN"
    /\ QuitCarriesReason

C12_Step ==
    /\ QuitPathStep
    /\ (BadNonceResponse /\ pc' # pc)
          => (pc' = "quit" /\ ctrl' = "idle" /\ quit_reason' = quit_reason)

\* C12: the session request returns SUCCESS only for a response with code
\* 200 and an RP-Nonce that decoded to 16 bytes written to the nonce; with
\* code 200 and an RP-Nonce that does not decode to 16 bytes it fails,
\* quit_reason is SESSION_REQUEST_UNKNOWN and the session quits with it
\* without starting the control channel.
C12_NonceRequired == []C12_State /\ [][C12_Step]_vars

C12_Witness ==
    /\ BadNonceResponse
    /\ attempt = 2

\* the response just classified is no success and no renegotiable version
\* mismatch
TerminalResponse ==
    /\ pc = "req_ret"
    /\ resp # <<>>
    /\ ~(resp[1].code200 /\ resp[1].nonce # NULL)
    /\ ~(/\ resp[1].error_code \in {"RP_VERSION", "UNKNOWN"}
         /\ attempt < 3
         /\ resp[1].rp_version # NULL
         /\ resp[1].rp_version # chiaki_rp_version_string(target))

C13_State ==
    /\ TerminalResponse
          => /\ quit_reason =
                   CASE resp[1].error_code = "IN_USE" ->
                            "SESSION_REQUEST_RP_IN_USE"
                     [] resp[1].error_code = "CRASH" ->
                            "SESSION_REQUEST_RP_CRASH"
                     [] resp[1].error_code = "RP_VERSION" ->
                            "SESSION_REQUEST_RP_VERSION_MISMATCH"
                     [] OTHER -> "SESSION_REQUEST_UNKNOWN"
             /\ (resp[1].error_code = "RP_VERSION")
                   <=> (err = "VERSION_MISMATCH")
             /\ err # "SUCCESS"
    /\ QuitCarriesReason

C13_Step ==
    /\ QuitPathStep
    /\ (TerminalResponse /\ resp[1].error_code # "RP_VERSION" /\ pc' # pc)
          => (pc' = "quit" /\ ctrl' = "idle" /\ quit_reason' = quit_reason)

\* C13: a response that is no success and no renegotiable version mismatch
\* sets the quit reason from RP-Application-Reason (IN_USE, CRASH,
\* RP_VERSION with VERSION_MISMATCH returned, anything else UNKNOWN); for
\* IN_USE, CRASH and the default the session quits with exactly that
\* reason, with no further attempt and without starting the control channel.
C13_TerminalFailures == []C13_State /\ [][C13_Step]_vars

C13_Witness ==
    /\ pc = "returned"
    /\ ctrl = "idle"
    /\ QuitIndices # {}
    /\ events[Len(events)].reason = "SESSION_REQUEST_RP_IN_USE"

\* the target the server's RP-Version asks for ("none": no usable one)
RenegotiatedTarget(h) ==
    IF ~chiaki_target_is_unknown(chiaki_rp_version_parse(h.rp_version, ps5))
    THEN chiaki_rp_version_parse(h.rp_version, ps5)
    ELSE IF h.rp_version = "5.0" THEN "PS4_9" ELSE "none"

\* the response just classified came to an attempt with a target_out slot,
\* is no success, has reason RP_VERSION or UNKNOWN and an RP-Version that
\* differs from ours
RenegotiableResponse ==
    /\ pc = "req_ret"
    /\ resp # <<>>
    /\ attempt < 3
    /\ ~(resp[1].code200 /\ resp[1].nonce # NULL)
    /\ resp[1].error_code \in {"RP_VERSION", "UNKNOWN"}
    /\ resp[1].rp_version # NULL
    /\ resp[1].rp_version # chiaki_rp_version_string(target)

C14_State ==
    (sent # <<>>)
        => /\ sent[1].rp_version =
                 CASE target = "PS4_8" -> "8.0"
                   [] target = "PS4_9" -> "9.0"
                   [] target = "PS4_10" -> "10.0"
                   [] target = "PS5_1" -> "1.0"
                   [] OTHER -> "none"
           /\ sent[1].path =
                 IF target \in {"PS4_8", "PS4_9"} THEN "/sce/rp/session"
                 ELSE IF target \in {"PS5_1", "PS5_UNKNOWN"}
                 THEN "/sie/ps5/rp/sess/init"
                 ELSE "/sie/ps4/rp/sess/init"

C14_Step ==
    /\ (/\ RenegotiableResponse
        /\ RenegotiatedTarget(resp[1]) # "none"
        /\ pc' # pc)
          => /\ pc' = "req_loop"
             /\ attempt' = attempt + 1
             /\ target' = RenegotiatedTarget(resp[1])
    /\ (pc \in {"req_loop", "connecting", "connect_lock", "req_send"})
          => (target' = target)

\* C14: after a renegotiable response the next request is made with the
\* target parsed from the server's RP-Version (PS4_9 for "5.0"), and the
\* request sent carries that target's Rp-Version string and its path.
C14_RenegotiatedRequest == []C14_State /\ [][C14_Step]_vars

C14_Witness ==
    /\ pc = "recving"
    /\ attempt = 2
    /\ ps5
    /\ target = "PS4_9"
    /\ sent # <<>>
    /\ sent[1].path = "/sce/rp/session"

\* C15: once the stream run has returned and been classified, the quit
\* reason is the one its result gives, whatever it was before; reason_str
\* is set at most in the DISCONNECTED case, and QUIT carries both.
C15_StreamExit ==
    /\ (ecdh = "fini")
          => /\ pc \in {"quit_ctrl"} \cup QuitPathPcs
             /\ quit_reason =
                   CASE err = "DISCONNECTED" ->
                            "STREAM_CONNECTION_REMOTE_DISCONNECTED"
                     [] err \in {"SUCCESS", "CANCELED"} -> "STOPPED"
                     [] OTHER -> "STREAM_CONNECTION_UNKNOWN"
             /\ (err = "DISCONNECTED")
                   => (quit_reason_str \in {"remote_disconnect_reason", NULL})
             /\ (err # "DISCONNECTED") => (quit_reason_str = NULL)
             /\ \A i \in QuitIndices :
                   /\ events[i].reason = quit_reason
                   /\ events[i].reason_str = quit_reason_str
    /\ \A i \in QuitIndices :
          (events[i].reason_str # NULL)
              => (ecdh = "fini" /\ err = "DISCONNECTED")

C15_Witness ==
    /\ pc = "returned"
    /\ ecdh = "fini"
    /\ err = "DISCONNECTED"
    /\ events[Len(events)].type = "QUIT"
    /\ events[Len(events)].reason_str = "remote_disconnect_reason"

Reverse(seq) == [i \in 1..Len(seq) |-> seq[Len(seq) + 1 - i]]

\* C16: when chiaki_session_init fails, it has released exactly the
\* resources it had acquired, each once, in reverse order of acquisition.
C16_InitUnwinding ==
    (life = "init_failed") => (init_rel = Reverse(init_acq))


\* C17: the QUIT event never carries the reason NONE.
C17_QuitReasonSet == \A i \in QuitIndices : events[i].reason # "NONE"

\* C18: ctrl is started only after a request returned SUCCESS; the probe,
\* the crypto preparation and the stream run happen only with
\* ctrl_session_id_received observed; ECDH is destroyed exactly once iff it
\* was initialised; ctrl is stopped and joined exactly once, after the
\* stream run and before QUIT, iff it was started.
C18_PhaseOrder ==
    /\ ctrl # "misuse"
    /\ ecdh # "misuse"
    /\ (pc \in {"wait10", "ctrl_start"} \/ ctrl # "idle")
          => (nonce_set /\ (pc \in {"wait10", "ctrl_start"} => err = "SUCCESS"))
    /\ (pc \in {"probe_init", "probe_run", "crypto", "stream_run",
                "stream_lock"})
          => (ctrl_session_id_received /\ ctrl = "running")
    /\ (ecdh = "init") => (pc \in {"stream_run", "stream_lock"})
    /\ (pc \in {"stream_run", "stream_lock"}) => (ecdh = "init")
    /\ (pc \in QuitPathPcs)
          => (ctrl \in {"idle", "joined"} /\ ecdh \in {"none", "fini"})
    /\ (ctrl = "joined") => (pc \in QuitPathPcs)
    /\ (QuitIndices # {}) => (pc \in QuitPathPcs)

C18_Witness ==
    /\ pc = "returned"
    /\ ctrl = "joined"
    /\ ecdh = "fini"
    /\ QuitIndices # {}

\* C19: no LOGIN_PIN_REQUEST event is sent while ctrl_failed or
\* ctrl_session_id_received is true.
C19_PinLoopExit ==
    (pc = "cb_pin") => (~ctrl_failed /\ ~ctrl_session_id_received)

\* C20: in a call entered with quit_reason NONE the candidates reach connect
\* in list order; the first that connects is latched and ends the
\* iteration; a cancelled connect sets STOPPED and ends it; if none
\* connects the call returns NETWORK with CONNECTION_REFUSED iff the last
\* connect was refused, else SESSION_REQUEST_UNKNOWN.
C20_CandidateIteration ==
    LET n == Len(conn_log)
    IN  /\ \A i, j \in 1..n : (i < j) => (conn_log[i][1] < conn_log[j][1])
        /\ \A i \in 1..n :
              (i < n) => (conn_log[i][2] \notin {"SUCCESS", "CANCELED"})
        /\ (n > 0 /\ conn_log[n][2] = "SUCCESS")
              => /\ selected = conn_log[n][1]
                 /\ pc \in {"req_send", "recving", "recv_lock", "req_ret"}
        /\ (n > 0 /\ conn_log[n][2] = "CANCELED")
              => (pc = "req_ret" /\ quit_reason = "STOPPED"
                  /\ err = "NETWORK")
        /\ (/\ pc = "req_ret"
            /\ entry_qr = "NONE"
            /\ (n = 0 \/ conn_log[n][2] \notin {"SUCCESS", "CANCELED"}))
              => /\ err = "NETWORK"
                 /\ quit_reason =
                       IF n > 0 /\ conn_log[n][2] = "CONNECTION_REFUSED"
                       THEN "SESSION_REQUEST_CONNECTION_REFUSED"
                       ELSE "SESSION_REQUEST_UNKNOWN"

C20_Witness ==
    /\ pc = "req_ret"
    /\ entry_qr = "NONE"
    /\ Len(conn_log) = 2
    /\ conn_log[1][2] = "CONNECTION_REFUSED"
    /\ conn_log[2][2] = "NETWORK"

SessionRequestReasons ==
    {"SESSION_REQUEST_UNKNOWN", "SESSION_REQUEST_CONNECTION_REFUSED",
     "SESSION_REQUEST_RP_IN_USE", "SESSION_REQUEST_RP_CRASH",
     "SESSION_REQUEST_RP_VERSION_MISMATCH"}

\* C21: a QUIT event carries a SESSION_REQUEST_* reason only if no request
\* attempt returned SUCCESS and the control channel was never started.
C21_RequestReasonOnlyOnRequestFailure ==
    \A i \in QuitIndices :
        (events[i].reason \in SessionRequestReasons)
            => (~nonce_set /\ ctrl = "idle")

\* C22: once init has chosen it, session.target stays in the console family
\* of connect_info.ps5 (a PS5 target iff ps5 is true).
C22_FamilyPreserved ==
    (life # "new") => (chiaki_target_is_ps5(target) <=> ps5)

\* the positions of session_thread_request_session at which its socket
\* is open
SocketOpenPcs ==
    {"connecting", "connect_lock", "req_send", "recving", "recv_lock"}

\* C23: every socket opened by request_session is closed exactly once
\* before the call returns: at most one socket is open, it is open only
\* inside the call between socket() and the close of its path, and no close
\* happens without an open socket.
C23_SocketsClosed ==
    /\ open_socks \in {0, 1}
    /\ (open_socks = 1) <=> (pc \in SocketOpenPcs)
    /\ (session_sock = "open") <=> (open_socks = 1)

C23_Witness ==
    /\ pc = "req_ret"
    /\ open_socks = 0
    /\ Len(conn_log) = 2
    /\ conn_log[2][2] = "SUCCESS"
    /\ resp # <<>>

\* C24: the assertion in the PIN loop never fails: after the PIN wait, with
\* should_stop and ctrl_failed false, login_pin_entered is true and
\* login_pin is non-null; an entered PIN always has a buffer.
C24_PinAssertion ==
    /\ pc # "abort"
    /\ (pc = "after_pin_wait" /\ ~should_stop /\ ~ctrl_failed)
          => (login_pin_entered /\ login_pin # 0)
    /\ login_pin_entered => (login_pin # 0)

C24_Witness ==
    /\ pc = "after_pin_wait"
    /\ ~should_stop
    /\ ~ctrl_failed
    /\ login_pin_entered
    /\ handed = 1

=============================================================================
